---- MODULE Spec2Model ----
(***************************************************************************)
(* The ReAct control loop of BlueskyAgent.run (src/agent/core.py) together *)
(* with the string operations it applies to the model's output, and its    *)
(* two callers: main (src/main.py) and EvaluationHarness.run_benchmark     *)
(* (src/eval/harness.py).                                                  *)
(*                                                                         *)
(* A text is a sequence of tokens.  The three markers the loop searches    *)
(* for, the newline and the blank are tokens of their own; every other     *)
(* token is a word without white space.  No marker is a substring of       *)
(* another one and no marker overlaps another one, so substring search,    *)
(* split, strip and startswith on characters agree with the same           *)
(* operations on tokens.                                                   *)
(***************************************************************************)
EXTENDS Integers, Sequences, FiniteSets, TLC

VARIABLES
    history,      \* self.history: sequence of [role, content]
    step_count,   \* local step_count of run
    pc,           \* position of the run
    llm_output,   \* local llm_output
    parsed,       \* action_name / action_input extracted in this step
    call,         \* the tool execution of this step
    observation,  \* local observation
    result,       \* value returned by run
    error,        \* exception run terminated with
    llm_calls,    \* model invocations of the current run
    tool_execs,   \* tool executions of the current run
    runs,         \* run invocations on this agent so far
    post,         \* arguments of the current run
    outcome,      \* how the last tool execution of the run ended
    cli,          \* main(): its arguments, environment, position, output
    bench         \* EvaluationHarness.run_benchmark: position and results

vars == <<history, step_count, pc, llm_output, parsed, call, observation,
          result, error, llm_calls, tool_execs, runs, post, outcome,
          cli, bench>>

\* the state of the two callers of the agent, main and the harness
callers == <<cli, bench>>

----------------------------------------------------------------------------
(* Bounds *)

MaxLen == 5

MaxRuns == 2

----------------------------------------------------------------------------
(* Tokens *)

FA == "Final Answer:"

ACT == "Action:"

AIN == "Action Input:"

NL == "\n"

SP == " "

Whitespace == {SP, NL}

None == <<"None">>

\* str.lower() on one token
LowerTok(t) ==
    CASE t = "Search" -> "search"
      [] t = "Vision" -> "vision"
      [] t = "Bluesky_Fetch" -> "bluesky_fetch"
      [] t = FA -> "final answer:"
      [] t = ACT -> "action:"
      [] t = AIN -> "action input:"
      [] OTHER -> t

\* str.lower()
Lower(s) == [i \in 1..Len(s) |-> LowerTok(s[i])]

\* str.strip(): leading and trailing white space removed
Strip(s) ==
    LET keep == {i \in 1..Len(s) : s[i] \notin Whitespace}
    IN  IF keep = {} THEN <<>>
        ELSE LET a == CHOOSE i \in keep : \A j \in keep : i <= j
                 b == CHOOSE i \in keep : \A j \in keep : j <= i
             IN  SubSeq(s, a, b)

\* `marker in text`
Contains(s, m) == \E i \in 1..Len(s) : s[i] = m

\* str.split(sep): n occurrences of sep give n + 1 pieces
RECURSIVE Split(_, _)
Split(s, sep) ==
    IF ~Contains(s, sep) THEN <<s>>
    ELSE LET i == CHOOSE k \in 1..Len(s) :
                      s[k] = sep /\ \A j \in 1..(k - 1) : s[j] # sep
         IN  <<SubSeq(s, 1, i - 1)>> \o Split(SubSeq(s, i + 1, Len(s)), sep)

\* str.startswith(marker)
StartsWith(s, m) == Len(s) > 0 /\ s[1] = m

\* [line for line in text.split('\n') if line.startswith(marker)]
LinesStarting(s, m) == SelectSeq(Split(s, NL), LAMBDA l : StartsWith(l, m))

----------------------------------------------------------------------------
(* The agent *)

max_steps == 5

ToolNames == {<<"search">>, <<"vision">>, <<"bluesky_fetch">>}

SystemPrompt == <<"SYSTEM PROMPT">>

TaskDescription(p) ==
    <<"Please explain this Bluesky post:", NL, "URL: ">> \o p.url
        \o <<NL, "Content: ">> \o p.content

SeedHistoryKeepsOld(p) ==
    history \o << [role |-> "system", content |-> SystemPrompt],
                  [role |-> "user", content |-> TaskDescription(p)] >>

SeedHistory(p) ==
    << [role |-> "system", content |-> SystemPrompt],
       [role |-> "user", content |-> TaskDescription(p)] >>

AssistantTurn(t) == [role |-> "assistant", content |-> t]

ObservationTurnAsAssistant(t) == [role |-> "assistant", content |-> t]

\* line 135: the observation goes back as a user turn
ObservationTurn(t) == [role |-> "user", content |-> t]

LoopCondLE(n) == n <= max_steps

\* while step_count < self.max_steps
LoopCond(n) == n < max_steps

ExhaustedMsg == <<"Error: Maximum steps reached without a final answer.">>

MalformedObs ==
    <<"Observation: I need to specify an Action and Action Input to use a tool, or provide a Final Answer.">>

NotFoundObs(name) ==
    <<"Observation: Error: Tool '">> \o name \o <<"' not found.">>

ErrorObs(e) == <<"Observation: Error parsing action: ">> \o e

ResultObs(r) == <<"Observation: ">> \o r

IndexError == <<"list index out of range">>

NoneTypeError == <<"'NoneType' object is not subscriptable">>

----------------------------------------------------------------------------
(* Parsing of one model output, core.py lines 102-112 *)

ParseKindActionFirst(t) ==
    IF Contains(t, ACT) /\ Contains(t, AIN) THEN "action"
    ELSE IF Contains(t, FA) THEN "final"
    ELSE "malformed"

ParseKindEitherMarker(t) ==
    IF Contains(t, FA) THEN "final"
    ELSE IF Contains(t, ACT) \/ Contains(t, AIN) THEN "action"
    ELSE "malformed"

\* the if / if / else cascade of lines 102, 105 and 131
ParseKind(t) ==
    IF Contains(t, FA) THEN "final"
    ELSE IF Contains(t, ACT) /\ Contains(t, AIN) THEN "action"
    ELSE "malformed"

\* llm_output.split("Final Answer:")[1].strip()
FinalAnswerText(t) == Strip(Split(t, FA)[2])

NoParse == [set |-> FALSE, name |-> <<>>, input |-> <<>>]

ExtractAnywhere(t) ==
    [ok |-> TRUE, err |-> <<>>,
     name |-> Lower(Strip(Split(t, ACT)[2])),
     input |-> Strip(Split(t, AIN)[2])]

\* lines 108-112; a missing line makes [0] raise IndexError
Extract(t) ==
    LET al == LinesStarting(t, ACT)
        il == LinesStarting(t, AIN)
    IN  IF Len(al) = 0 \/ Len(il) = 0
        THEN [ok |-> FALSE, err |-> IndexError, name |-> <<>>, input |-> <<>>]
        ELSE [ok |-> TRUE, err |-> <<>>,
              name |-> Lower(Strip(Split(al[1], ACT)[2])),
              input |-> Strip(Split(il[1], AIN)[2])]

InRegistryAny(name) == name # <<>>

\* action_name in self.tools
InRegistry(name) == name \in ToolNames

ArgKeyAlwaysQuery(name) == "query"

\* the keyword the input is passed under, lines 116-122
ArgKey(name) ==
    IF name = <<"search">> THEN "query"
    ELSE IF name = <<"bluesky_fetch">> THEN "url"
    ELSE "image_url"

NoCall == [active |-> FALSE, name |-> <<>>, key |-> "", value |-> <<>>]

ToolCall(name, input) ==
    [active |-> TRUE, name |-> name, key |-> ArgKey(name), value |-> input]

----------------------------------------------------------------------------
(* What a tool execution can produce *)

\* values execute returns
ToolReturnValues(name) ==
    IF name = <<"search">> THEN {<<"No results found.">>}
    ELSE IF name = <<"vision">> THEN {<<"A meme with text.">>, None}
    ELSE {<<"Error: Invalid Bluesky URL format.">>}

\* descriptions of exceptions leaving execute
ToolExceptions == {<<"tool failure">>}

NoOutcome == [kind |-> "none", value |-> <<>>]

ToolOutcomes(name) ==
    {[kind |-> "return", value |-> v] : v \in ToolReturnValues(name)}
        \cup {[kind |-> "raise", value |-> e] : e \in ToolExceptions}

TryDispatchNoCatch(o) ==
    IF o.kind = "raise" THEN [propagates |-> TRUE, obs |-> <<>>, err |-> o.value]
    ELSE IF o.value = None
         THEN [propagates |-> FALSE, obs |-> ErrorObs(NoneTypeError), err |-> <<>>]
         ELSE [propagates |-> FALSE, obs |-> ResultObs(o.value), err |-> <<>>]

\* the try / except Exception around the execution, lines 107-130:
\* tool_result[:200] on a None result raises TypeError inside the try
TryDispatch(o) ==
    IF o.kind = "raise"
    THEN [propagates |-> FALSE, obs |-> ErrorObs(o.value), err |-> <<>>]
    ELSE IF o.value = None
         THEN [propagates |-> FALSE, obs |-> ErrorObs(NoneTypeError), err |-> <<>>]
         ELSE [propagates |-> FALSE, obs |-> ResultObs(o.value), err |-> <<>>]

----------------------------------------------------------------------------
(* Inputs *)

Posts ==
    { [content |-> <<"lol this is peak">>, url |-> <<>>],
      [content |-> <<>>,
       url |-> <<"https://bsky.app/profile/alice.bsky.social/post/abc123">>] }

\* completions the backend produces in the loop specification
Replies ==
    { <<"Thought:", SP, "done", NL, ACT, SP, "search", NL, AIN, SP, "peak",
        NL, FA, NL, "*", SP, "point", NL>>,
      <<SP, "Thought:", NL, ACT, SP, "Search", SP, NL, AIN, SP, "peak", SP,
        "meme", NL, ACT, SP, "vision", NL, AIN, SP, "https://img">>,
      <<ACT, "vision", NL, AIN, "https://img">>,
      <<ACT, SP, "bluesky_fetch", NL, AIN, SP, "https://bsky.app/x">>,
      <<ACT, SP, "browse", NL, AIN, SP, "peak">>,
      <<"I", SP, "will", SP, "search">>,
      <<"Thought:", SP, ACT, SP, "search", NL, AIN, SP, "peak">>,
      <<FA, SP>> \o ExhaustedMsg }

Alphabet == {FA, ACT, AIN, NL, SP, "Search", "q"}

\* every completion of at most MaxLen tokens
AllTexts == UNION {[1..n -> Alphabet] : n \in 0..MaxLen}

ModelErrors == {<<"APIConnectionError">>}

AttributeError == <<"'NoneType' object has no attribute 'strip'">>

----------------------------------------------------------------------------
(* State machine *)

\* main is not running
NoCli == [pc |-> "none"]

\* run_benchmark is not running
NoBench == [pc |-> "none"]

Init ==
    /\ history = <<>>
    /\ step_count = 0
    /\ pc = "idle"
    /\ llm_output = <<>>
    /\ parsed = NoParse
    /\ call = NoCall
    /\ observation = <<>>
    /\ result = None
    /\ error = None
    /\ llm_calls = 0
    /\ tool_execs = 0
    /\ runs = 0
    /\ post = [content |-> <<>>, url |-> <<>>]
    /\ outcome = NoOutcome
    /\ cli = NoCli
    /\ bench = NoBench

Terminal == {"done", "exhausted", "raised"}

\* run is entered with the post p: lines 80-85
RunStartWith(p) ==
    /\ pc \in Terminal \cup {"idle"}
    /\ post' = p
    /\ history' = SeedHistory(p)
    /\ step_count' = 0
    /\ pc' = "loop"
    /\ llm_output' = <<>>
    /\ parsed' = NoParse
    /\ call' = NoCall
    /\ observation' = <<>>
    /\ result' = None
    /\ error' = None
    /\ llm_calls' = 0
    /\ tool_execs' = 0
    /\ runs' = runs + 1
    /\ outcome' = NoOutcome

\* a caller of the library runs the agent on some post
RunStart ==
    /\ runs < MaxRuns
    /\ \E p \in Posts : RunStartWith(p)
    /\ UNCHANGED callers

\* lines 91-98 with the backend returning the completion raw
ModelReturns(raw) ==
    /\ pc = "loop"
    /\ LoopCond(step_count)
    /\ llm_calls' = llm_calls + 1
    /\ llm_output' = Strip(raw)
    /\ history' = Append(history, AssistantTurn(Strip(raw)))
    /\ parsed' = NoParse
    /\ call' = NoCall
    /\ pc' = "parse"
    /\ UNCHANGED <<step_count, observation, result, error, tool_execs, runs,
                   post, outcome>>
    /\ UNCHANGED callers

\* line 91 raises: nothing in run catches it
ModelRaises ==
    /\ pc = "loop"
    /\ LoopCond(step_count)
    /\ llm_calls' = llm_calls + 1
    /\ \E e \in ModelErrors : error' = e
    /\ pc' = "raised"
    /\ UNCHANGED <<history, step_count, llm_output, parsed, call, observation,
                   result, tool_execs, runs, post, outcome>>
    /\ UNCHANGED callers

\* the completion has no text: None.strip() raises at line 97
ModelNoContent ==
    /\ pc = "loop"
    /\ LoopCond(step_count)
    /\ llm_calls' = llm_calls + 1
    /\ error' = AttributeError
    /\ pc' = "raised"
    /\ UNCHANGED <<history, step_count, llm_output, parsed, call, observation,
                   result, tool_execs, runs, post, outcome>>
    /\ UNCHANGED callers

\* line 138
ReturnExhausted ==
    /\ pc = "loop"
    /\ ~LoopCond(step_count)
    /\ result' = ExhaustedMsg
    /\ pc' = "exhausted"
    /\ UNCHANGED <<history, step_count, llm_output, parsed, call, observation,
                   error, llm_calls, tool_execs, runs, post, outcome>>
    /\ UNCHANGED callers

FeedBackNoAppend(obs) ==
    /\ observation' = obs
    /\ UNCHANGED history
    /\ step_count' = step_count + 1
    /\ pc' = "loop"

\* lines 135-136: the observation is appended and the step counted
FeedBack(obs) ==
    /\ observation' = obs
    /\ history' = Append(history, ObservationTurn(obs))
    /\ step_count' = step_count + 1
    /\ pc' = "loop"

\* lines 102-103
FinalAnswer ==
    /\ pc = "parse"
    /\ ParseKind(llm_output) = "final"
    /\ result' = FinalAnswerText(llm_output)
    /\ pc' = "done"
    /\ UNCHANGED <<history, step_count, llm_output, parsed, call, observation,
                   error, llm_calls, tool_execs, runs, post, outcome>>
    /\ UNCHANGED callers

\* lines 105-112 and 129-130: extraction raises
ExtractFails ==
    /\ pc = "parse"
    /\ ParseKind(llm_output) = "action"
    /\ ~Extract(llm_output).ok
    /\ FeedBack(ErrorObs(Extract(llm_output).err))
    /\ UNCHANGED <<llm_output, parsed, call, result, error, llm_calls,
                   tool_execs, runs, post, outcome>>
    /\ UNCHANGED callers

\* lines 105-115 and 126-127
UnknownTool ==
    /\ pc = "parse"
    /\ ParseKind(llm_output) = "action"
    /\ LET x == Extract(llm_output)
       IN  /\ x.ok
           /\ ~InRegistry(x.name)
           /\ parsed' = [set |-> TRUE, name |-> x.name, input |-> x.input]
           /\ FeedBack(NotFoundObs(x.name))
    /\ UNCHANGED <<llm_output, call, result, error, llm_calls, tool_execs,
                   runs, post, outcome>>
    /\ UNCHANGED callers

DispatchEveryPair ==
    /\ pc = "parse"
    /\ ParseKind(llm_output) = "action"
    /\ LET x == Extract(llm_output)
       IN  /\ x.ok
           /\ InRegistry(x.name)
           /\ parsed' = [set |-> TRUE, name |-> x.name, input |-> x.input]
           /\ call' = ToolCall(x.name, x.input)
    /\ tool_execs' = tool_execs + Len(LinesStarting(llm_output, ACT))
    /\ pc' = "exec"
    /\ UNCHANGED <<history, step_count, llm_output, observation, result,
                   error, llm_calls, runs, post, outcome>>
    /\ UNCHANGED callers

\* lines 105-122: execute is entered
Dispatch ==
    /\ pc = "parse"
    /\ ParseKind(llm_output) = "action"
    /\ LET x == Extract(llm_output)
       IN  /\ x.ok
           /\ InRegistry(x.name)
           /\ parsed' = [set |-> TRUE, name |-> x.name, input |-> x.input]
           /\ call' = ToolCall(x.name, x.input)
    /\ tool_execs' = tool_execs + 1
    /\ pc' = "exec"
    /\ UNCHANGED <<history, step_count, llm_output, observation, result,
                   error, llm_calls, runs, post, outcome>>
    /\ UNCHANGED callers

\* execute is left with outcome o: lines 117-130
ToolCompletes(o) ==
    /\ pc = "exec"
    /\ o \in ToolOutcomes(call.name)
    /\ outcome' = o
    /\ LET d == TryDispatch(o)
       IN  IF d.propagates
           THEN /\ error' = d.err
                /\ pc' = "raised"
                /\ UNCHANGED <<observation, history, step_count>>
           ELSE /\ FeedBack(d.obs)
                /\ UNCHANGED error
    /\ UNCHANGED <<llm_output, parsed, call, result, llm_calls, tool_execs,
                   runs, post>>
    /\ UNCHANGED callers

ToolReturns ==
    \E v \in ToolReturnValues(call.name) :
        ToolCompletes([kind |-> "return", value |-> v])

ToolRaises ==
    \E e \in ToolExceptions : ToolCompletes([kind |-> "raise", value |-> e])

\* lines 131-132
Malformed ==
    /\ pc = "parse"
    /\ ParseKind(llm_output) = "malformed"
    /\ FeedBack(MalformedObs)
    /\ UNCHANGED <<llm_output, parsed, call, result, error, llm_calls,
                   tool_execs, runs, post, outcome>>
    /\ UNCHANGED callers

ModelReplies == \E raw \in Replies : ModelReturns(raw)

\* the first completion of a run ranges over every bounded text
ModelRepliesAnyText ==
    /\ pc = "loop"
    /\ step_count = 0
    /\ \E raw \in AllTexts : ModelReturns(raw)

Step ==
    \/ FinalAnswer
    \/ ExtractFails
    \/ UnknownTool
    \/ Dispatch
    \/ ToolReturns
    \/ ToolRaises
    \/ Malformed

Next ==
    \/ RunStart
    \/ ModelReplies
    \/ ModelRaises
    \/ ModelNoContent
    \/ ReturnExhausted
    \/ Step

Spec == Init /\ [][Next]_vars

NextParser ==
    \/ RunStart
    \/ ModelRepliesAnyText
    \/ Step

ParserSpec == Init /\ [][NextParser]_vars

----------------------------------------------------------------------------
(* Properties *)

Last(s) == s[Len(s)]

\* the role the transcript must have at Python index j
RoleAt(j) ==
    IF j = 0 THEN "system"
    ELSE IF j = 1 THEN "user"
    ELSE IF j % 2 = 0 THEN "assistant" ELSE "user"

\* the text after the first occurrence of marker m, up to the end of s
AfterFirst(s, m) ==
    LET i == CHOOSE k \in 1..Len(s) :
                 s[k] = m /\ \A j \in 1..(k - 1) : s[j] # m
    IN  SubSeq(s, i + 1, Len(s))

\* C1: a run makes at most max_steps model invocations; with max_steps
\* completed steps and no final answer the only continuation is the return
\* of the fixed exhaustion message, reached after exactly max_steps model
\* invocations and max_steps observations.
C1_StepBudget ==
    /\ [](llm_calls <= max_steps /\ step_count <= max_steps)
    /\ [](pc = "exhausted" =>
            /\ result = ExhaustedMsg
            /\ step_count = max_steps
            /\ llm_calls = max_steps
            /\ Len(history) = 2 + 2 * max_steps)
    /\ [][(pc = "loop" /\ step_count = max_steps) =>
            (pc' = "exhausted" /\ llm_calls' = llm_calls
             /\ result' = <<"Error: Maximum steps reached without a final answer.">>)]_vars

C1_Witness ==
    /\ pc = "exhausted"
    /\ llm_calls = 5
    /\ \A i \in 1..Len(history) : ~Contains(history[i].content, FA)

\* C2: in every state of a run the transcript starts system, user and then
\* alternates assistant, user.
C2_RolesAlternate ==
    /\ (pc # "idle" => Len(history) >= 2)
    /\ \A i \in 1..Len(history) : history[i].role = RoleAt(i - 1)

C2_Witness ==
    /\ pc \in {"done", "exhausted"}
    /\ Len(history) >= 7

\* C3: an output containing "Final Answer:" ends the run in Done in that
\* very step: it is the last (assistant) turn, no tool is executed, no
\* observation is appended, the step is not counted, and the transcript of
\* a finished run is not changed until another run resets it.
C3_FinalAnswerEndsRun ==
    /\ [][(pc = "parse" /\ Contains(llm_output, FA)) =>
            /\ pc' = "done"
            /\ Last(history) = [role |-> "assistant", content |-> llm_output]
            /\ history' = history
            /\ tool_execs' = tool_execs
            /\ call' = call
            /\ observation' = observation
            /\ step_count' = step_count]_vars
    /\ [][pc = "done" => (history' = history \/ runs' = runs + 1)]_vars

C3_Witness ==
    /\ pc = "done"
    /\ Contains(llm_output, FA)
    /\ Extract(llm_output).ok
    /\ Extract(llm_output).name \in ToolNames
    /\ tool_execs = 0

C5_ToolFailureRecovered ==
    /\ [][(pc = "exec" /\ outcome'.kind = "raise") =>
            /\ pc' = "loop"
            /\ error' = None
            /\ observation' =
                   <<"Observation: Error parsing action: ">> \o outcome'.value
            /\ history' = Append(history,
                   [role |-> "user", content |-> observation'])
            /\ step_count' = step_count + 1]_vars
    /\ [][pc = "loop" =>
            IF step_count < max_steps
            THEN llm_calls' = llm_calls + 1 /\ pc' \in {"parse", "raised"}
            ELSE pc' = "exhausted"]_vars

C5_Witness ==
    /\ pc = "exhausted"
    /\ outcome.kind = "raise"
    /\ Last(history).content =
           <<"Observation: Error parsing action: ">> \o outcome.value

\* C6: a parsed tool call whose name is not a key of the registry (the
\* empty name included) executes no tool, appends the observation naming
\* it as not found, counts the step and does not raise.
C6_UnknownToolObserved ==
    [][(pc = "parse" /\ parsed'.set /\ parsed'.name \notin ToolNames) =>
          /\ tool_execs' = tool_execs
          /\ call' = call
          /\ pc' = "loop"
          /\ error' = None
          /\ observation' = <<"Observation: Error: Tool '">>
                                \o parsed'.name \o <<"' not found.">>
          /\ history' = Append(history,
                 [role |-> "user", content |-> observation'])
          /\ step_count' = step_count + 1]_vars

C6_Witness ==
    /\ pc = "loop"
    /\ step_count = 1
    /\ parsed.set
    /\ parsed.name = <<>>
    /\ Last(history).content = NotFoundObs(<<>>)

\* C7: an output without "Final Answer:" that does not contain both
\* "Action:" and "Action Input:" executes no tool, appends exactly the
\* fixed instructive observation, counts the step and does not raise.
C7_MalformedObserved ==
    [][(/\ pc = "parse"
        /\ ~Contains(llm_output, FA)
        /\ ~(Contains(llm_output, ACT) /\ Contains(llm_output, AIN))) =>
          /\ tool_execs' = tool_execs
          /\ call' = call
          /\ pc' = "loop"
          /\ error' = None
          /\ observation' = <<"Observation: I need to specify an Action and Action Input to use a tool, or provide a Final Answer.">>
          /\ history' = Append(history,
                 [role |-> "user", content |-> observation'])
          /\ step_count' = step_count + 1]_vars

C7_Witness ==
    /\ pc = "loop"
    /\ step_count = 1
    /\ Contains(llm_output, AIN)
    /\ ~Contains(llm_output, ACT)
    /\ Last(history).content = MalformedObs

\* C8: the input of a dispatched tool call is passed under one keyword
\* chosen by the action name: query for search, url for bluesky_fetch,
\* image_url for any other registered name; the value is the parsed input.
C8_ArgumentKey ==
    call.active =>
        /\ call.name \in ToolNames
        /\ call.name = parsed.name
        /\ call.value = parsed.input
        /\ (call.name = <<"search">> => call.key = "query")
        /\ (call.name = <<"bluesky_fetch">> => call.key = "url")
        /\ (call.name \notin {<<"search">>, <<"bluesky_fetch">>} =>
                call.key = "image_url")

C8_Witness ==
    /\ pc = "exec"
    /\ call.name = <<"vision">>
    /\ call.key = "image_url"
    /\ call.value = <<"https://img">>

\* C9 as claimed: the value returned for an output containing
\* "Final Answer:" is the whole text after the first occurrence, trimmed.
C9_AnswerIsRestOfOutput ==
    pc = "done" => result = Strip(AfterFirst(llm_output, FA))

\* C10 as claimed: for an output without "Final Answer:" that has a line
\* beginning with "Action:" and a line beginning with "Action Input:", the
\* name is the text after the marker on the first "Action:" line, trimmed
\* and lower-cased, and the input the text after the marker on the first
\* "Action Input:" line, trimmed.
C10_FirstLinesParsed ==
    (/\ pc \in {"exec", "loop"}
     /\ llm_calls > 0
     /\ ~Contains(llm_output, FA)
     /\ Len(LinesStarting(llm_output, ACT)) > 0
     /\ Len(LinesStarting(llm_output, AIN)) > 0) =>
        /\ parsed.set
        /\ parsed.name = Lower(Strip(Tail(LinesStarting(llm_output, ACT)[1])))
        /\ parsed.input = Strip(Tail(LinesStarting(llm_output, AIN)[1]))

\* C11: an output without "Final Answer:" that contains "Action:" and
\* "Action Input:" but has no line beginning with one of them (the marker
\* is indented or mid-line) executes no tool, appends the observation
\* carrying the description of the exception, counts the step and the loop
\* goes on without raising.
C11_ExtractionFailureObserved ==
    [][(/\ pc = "parse"
        /\ ~Contains(llm_output, FA)
        /\ Contains(llm_output, ACT)
        /\ Contains(llm_output, AIN)
        /\ \/ Len(LinesStarting(llm_output, ACT)) = 0
           \/ Len(LinesStarting(llm_output, AIN)) = 0) =>
          /\ tool_execs' = tool_execs
          /\ call' = call
          /\ pc' = "loop"
          /\ error' = None
          /\ observation' = <<"Observation: Error parsing action: ",
                               "list index out of range">>
          /\ history' = Append(history,
                 [role |-> "user", content |-> observation'])
          /\ step_count' = step_count + 1]_vars

C11_Witness ==
    /\ pc = "loop"
    /\ step_count = 1
    /\ tool_execs = 0
    /\ Contains(llm_output, ACT)
    /\ Len(LinesStarting(llm_output, ACT)) = 0
    /\ Len(LinesStarting(llm_output, AIN)) > 0
    /\ Last(history).content = ErrorObs(IndexError)

\* C12 as claimed: a run returns the exhaustion message if and only if it
\* ended by exhausting the step budget; no run ended by a final answer
\* returns that value.
C12_ExhaustionDistinguishable ==
    (pc \in {"done", "exhausted"}) =>
        ((result = ExhaustedMsg) <=> (pc = "exhausted"))

\* C13: whatever state the agent was left in (never run, Done, Exhausted
\* or aborted by an exception), a new run starts from a transcript of
\* exactly two turns, the system prompt and the task description of that
\* run's own post, with both counters at zero; its first model invocation
\* is made on exactly that transcript, and the two seed turns of the
\* current post stay in front of the transcript for the whole run.
C13_FreshTranscript ==
    /\ [](pc # "idle" =>
            /\ Len(history) >= 2
            /\ history[1] = [role |-> "system", content |-> SystemPrompt]
            /\ history[2].role = "user"
            /\ history[2].content =
                   <<"Please explain this Bluesky post:", NL, "URL: ">>
                       \o post.url \o <<NL, "Content: ">> \o post.content
            /\ Len(history) <= 2 + 2 * llm_calls)
    /\ [][/\ (runs' # runs) =>
                /\ pc \in {"idle", "done", "exhausted", "raised"}
                /\ Len(history') = 2
                /\ step_count' = 0
                /\ llm_calls' = 0
          /\ (llm_calls = 0 /\ llm_calls' = 1) => Len(history) = 2]_vars

C13_Witness ==
    /\ runs = 2
    /\ pc = "parse"
    /\ llm_calls = 1
    /\ Len(history) = 3
    /\ post.url # <<>>

----------------------------------------------------------------------------
(* Termination of run when every invocation returns *)

\* completions of the termination specification: a final answer, a search
\* call, an unknown tool, a text without markers, a mid-line marker
LiveReplies ==
    { <<"Thought:", SP, "done", NL, ACT, SP, "search", NL, AIN, SP, "peak",
        NL, FA, NL, "*", SP, "point", NL>>,
      <<SP, "Thought:", NL, ACT, SP, "Search", SP, NL, AIN, SP, "peak", SP,
        "meme", NL, ACT, SP, "vision", NL, AIN, SP, "https://img">>,
      <<ACT, SP, "browse", NL, AIN, SP, "peak">>,
      <<"I", SP, "will", SP, "search">>,
      <<"Thought:", SP, ACT, SP, "search", NL, AIN, SP, "peak">> }

ModelRepliesLive == \E raw \in LiveReplies : ModelReturns(raw)

\* every model invocation returns a text: no ModelRaises, no ModelNoContent
NextLive == RunStart \/ ModelRepliesLive \/ ReturnExhausted \/ Step

\* the parse step of lines 101-132, whichever branch it takes
Parse == FinalAnswer \/ ExtractFails \/ UnknownTool \/ Dispatch \/ Malformed

\* weak fairness of Parse with ENABLED <<Parse>>_vars written out: the
\* cascade of lines 102-132 always has a branch to take, so the step is
\* enabled exactly when pc = "parse"
ParseFair == []<>(pc # "parse") \/ []<><<Parse>>_vars

\* run is sequential code, so a statement that is reached is executed; the
\* model and the tools answer every invocation
LiveSpec ==
    /\ Init
    /\ [][NextLive]_vars
    /\ WF_vars(ModelRepliesLive)
    /\ WF_vars(ReturnExhausted)
    /\ WF_vars(ToolReturns \/ ToolRaises)
    /\ ParseFair

----------------------------------------------------------------------------
(* main(), src/main.py lines 10-40 *)

\* the variables of the agent and of the run in progress
agent_vars ==
    <<history, step_count, pc, llm_output, parsed, call, observation,
      result, error, llm_calls, tool_execs, runs, post, outcome>>

\* line 23: the content handed to run when --content is missing
DefaultContent ==
    <<"Content not provided, please use variable search to find the post content if needed.">>

NoInputMsg == <<"Error: Please provide --url or --content.">>

NoKeyMsg == <<"Error: OPENAI_API_KEY not found in environment variables.">>

\* line 26
InitializingMsg == <<"Initializing Bluesky Agent...">>

\* the command lines and environments main starts from; a missing option
\* or variable (None or "", both false in Python) is the empty text
CliStarts ==
    { [pc |-> "start", url |-> u, content |-> c, key |-> k,
       agent |-> FALSE, printed |-> <<>>] :
        u \in {<<>>, <<"https://bsky.app/profile/alice.bsky.social/post/abc123">>},
        c \in {<<>>, <<"lol this is peak">>},
        k \in {<<>>, <<"sk-test">>} }

PreflightIgnoresKey(c) ==
    IF c.url = <<>> /\ c.content = <<>> THEN "no_input" ELSE "ok"

\* the two early returns, lines 17-19 and 28-30
Preflight(c) ==
    IF c.url = <<>> /\ c.content = <<>> THEN "no_input"
    ELSE IF c.key = <<>> THEN "no_key"
    ELSE "ok"

\* lines 23-24
CliPost(c) ==
    [content |-> IF c.content # <<>> THEN c.content ELSE DefaultContent,
     url |-> c.url]

\* main is entered; no agent exists yet
InitMain ==
    /\ history = <<>>
    /\ step_count = 0
    /\ pc = "idle"
    /\ llm_output = <<>>
    /\ parsed = NoParse
    /\ call = NoCall
    /\ observation = <<>>
    /\ result = None
    /\ error = None
    /\ llm_calls = 0
    /\ tool_execs = 0
    /\ runs = 0
    /\ post = [content |-> <<>>, url |-> <<>>]
    /\ outcome = NoOutcome
    /\ cli \in CliStarts
    /\ bench = NoBench

\* lines 17-19: neither --url nor --content
MainNoInput ==
    /\ cli.pc = "start"
    /\ Preflight(cli) = "no_input"
    /\ cli' = [cli EXCEPT !.pc = "returned", !.printed = <<NoInputMsg>>]
    /\ UNCHANGED <<agent_vars, bench>>

\* lines 23-30: the credential is missing
MainNoKey ==
    /\ cli.pc = "start"
    /\ Preflight(cli) = "no_key"
    /\ cli' = [cli EXCEPT !.pc = "returned",
                          !.printed = <<InitializingMsg, NoKeyMsg>>]
    /\ UNCHANGED <<agent_vars, bench>>

\* lines 23-34: the agent is constructed and run is entered
MainRuns ==
    /\ cli.pc = "start"
    /\ Preflight(cli) = "ok"
    /\ RunStartWith(CliPost(cli))
    /\ cli' = [cli EXCEPT !.pc = "running", !.agent = TRUE,
                          !.printed = <<InitializingMsg>>]
    /\ UNCHANGED bench

\* lines 36-37: run returned
MainPrintsExplanation ==
    /\ cli.pc = "running"
    /\ pc \in {"done", "exhausted"}
    /\ cli' = [cli EXCEPT !.pc = "returned",
                  !.printed = cli.printed
                      \o <<<<"=== Agent Explanation ===">>, result>>]
    /\ UNCHANGED <<agent_vars, bench>>

\* lines 39-40: run raised
MainPrintsError ==
    /\ cli.pc = "running"
    /\ pc = "raised"
    /\ cli' = [cli EXCEPT !.pc = "returned",
                  !.printed = Append(cli.printed,
                                     <<"An error occurred: ">> \o error)]
    /\ UNCHANGED <<agent_vars, bench>>

NextMain ==
    \/ MainNoInput
    \/ MainNoKey
    \/ MainRuns
    \/ MainPrintsExplanation
    \/ MainPrintsError
    \/ ModelRepliesLive
    \/ ModelRaises
    \/ ModelNoContent
    \/ ReturnExhausted
    \/ Step

MainSpec == InitMain /\ [][NextMain]_vars

\* C15: when main is given neither --url nor --content, or the environment
\* has no OPENAI_API_KEY, main prints the error and returns: no agent is
\* constructed, run is not entered and the model is not invoked; an agent
\* is constructed and run only with an input and the credential present.
C15_PreflightGuardsRun ==
    /\ []((cli.url = <<>> /\ cli.content = <<>>) \/ cli.key = <<>> =>
            /\ ~cli.agent
            /\ cli.pc \in {"start", "returned"}
            /\ pc = "idle"
            /\ runs = 0
            /\ llm_calls = 0
            /\ step_count = 0
            /\ history = <<>>
            /\ (cli.pc = "returned" =>
                  cli.printed[Len(cli.printed)] \in
                      { <<"Error: Please provide --url or --content.">>,
                        <<"Error: OPENAI_API_KEY not found in environment variables.">> }))
    /\ [](cli.agent \/ runs > 0 \/ cli.pc = "running" =>
            /\ cli.url # <<>> \/ cli.content # <<>>
            /\ cli.key # <<>>)
    /\ [][(cli.pc = "start" /\ ((cli.url = <<>> /\ cli.content = <<>>)
                                   \/ cli.key = <<>>)) =>
             cli'.pc = "returned"]_vars

C15_Witness ==
    /\ cli.pc = "returned"
    /\ cli.url # <<>>
    /\ cli.key = <<>>
    /\ ~cli.agent
    /\ cli.printed = <<InitializingMsg, NoKeyMsg>>

\* C16 as claimed: every execution of a registered tool, called with its
\* named argument, ends by returning a text; it never returns a value
\* that is not a string and never lets an exception reach its caller.
C16_ToolsReturnText ==
    /\ outcome.kind \in {"none", "return"}
    /\ outcome.value # None

----------------------------------------------------------------------------
(* EvaluationHarness, src/eval/harness.py *)

\* default argument of run_benchmark, line 73
Models == <<"gpt-4o", "gpt-4o-mini">>

\* self.cases: one case with its content, one with the URL only
Cases ==
    << [id |-> "meme", has_content |-> TRUE,
        post_content |-> <<"lol this is peak">>,
        post_url |-> <<"https://bsky.app/profile/alice.bsky.social/post/abc123">>,
        gold_standard |-> <<"slang for the best">>],
       [id |-> "link", has_content |-> FALSE,
        post_content |-> <<>>,
        post_url |-> <<"https://bsky.app/profile/bob.bsky.social/post/xyz789">>,
        gold_standard |-> <<"a release note">>] >>

\* lines 26-27: the arguments evaluate_case gives to run
CasePost(c) ==
    [content |-> IF c.has_content THEN c.post_content ELSE <<>>,
     url |-> c.post_url]

\* completions of the benchmark specification: a final answer or a text
\* without markers (tool calls are the subject of Spec)
BenchReplies ==
    { <<"Thought:", SP, "done", NL, ACT, SP, "search", NL, AIN, SP, "peak",
        NL, FA, NL, "*", SP, "point", NL>>,
      <<"I", SP, "will", SP, "search">> }

ModelRepliesBench == \E raw \in BenchReplies : ModelReturns(raw)

JudgeFallbackOne ==
    [factuality |-> 1, utility |-> 1, reasoning |-> <<"Error in judging.">>]

\* line 71
JudgeFallback ==
    [factuality |-> 0, utility |-> 0, reasoning |-> <<"Error in judging.">>]

\* how the judge call of lines 63-68 can end: the reply decodes to a JSON
\* object (with or without the two ratings), the reply is no JSON, or the
\* call raises
JudgeOutcomes ==
    { [kind |-> "json",
       value |-> [factuality |-> 4, utility |-> 5,
                  reasoning |-> <<"accurate">>]],
      [kind |-> "json", value |-> [reasoning |-> <<"cannot rate">>]],
      [kind |-> "invalid", value |-> [text |-> <<"not json">>]],
      [kind |-> "raise", value |-> [exception |-> <<"judge failure">>]] }

\* _judge_output, lines 62-71: json.loads of the reply, or the fallback
JudgeOutput(o) == IF o.kind = "json" THEN o.value ELSE JudgeFallback

\* lines 27-29: the value of run, or "Error: " and the exception
AgentOutput == IF pc = "raised" THEN <<"Error: ">> \o error ELSE result

RECURSIVE SumOf(_, _)
\* sum(r['scores'][key] for r in model_results)
SumOf(rs, key) ==
    IF rs = <<>> THEN 0 ELSE rs[1].scores[key] + SumOf(Tail(rs), key)

\* the subscripts of lines 87-88 raise KeyError on a score without the key
Averageable(rs) ==
    \A i \in 1..Len(rs) :
        {"factuality", "utility"} \subseteq DOMAIN rs[i].scores

\* EvaluationHarness.__init__ has run: an agent exists, nothing is judged
InitBench ==
    /\ history = <<>>
    /\ step_count = 0
    /\ pc = "idle"
    /\ llm_output = <<>>
    /\ parsed = NoParse
    /\ call = NoCall
    /\ observation = <<>>
    /\ result = None
    /\ error = None
    /\ llm_calls = 0
    /\ tool_execs = 0
    /\ runs = 0
    /\ post = [content |-> <<>>, url |-> <<>>]
    /\ outcome = NoOutcome
    /\ cli = NoCli
    /\ bench = [pc |-> "model", mi |-> 1, ci |-> 1, agents |-> 1,
                model_name |-> "gpt-4o", model_results |-> <<>>,
                results |-> <<>>, agent_output |-> <<>>,
                judge |-> [kind |-> "none"]]
\* lines 77-81: a new agent for the next model, an empty result list
BenchNewAgent ==
    /\ bench.pc = "model"
    /\ bench.mi <= Len(Models)
    /\ history' = <<>>
    /\ step_count' = 0
    /\ pc' = "idle"
    /\ llm_output' = <<>>
    /\ parsed' = NoParse
    /\ call' = NoCall
    /\ observation' = <<>>
    /\ result' = None
    /\ error' = None
    /\ llm_calls' = 0
    /\ tool_execs' = 0
    /\ runs' = 0
    /\ post' = [content |-> <<>>, url |-> <<>>]
    /\ outcome' = NoOutcome
    /\ bench' = [bench EXCEPT !.pc = "case", !.ci = 1,
                              !.agents = bench.agents + 1,
                              !.model_name = Models[bench.mi],
                              !.model_results = <<>>]
    /\ UNCHANGED cli

\* lines 82-83 and 21-27: evaluate_case enters run for the next case
BenchStartCase ==
    /\ bench.pc = "case"
    /\ bench.ci <= Len(Cases)
    /\ RunStartWith(CasePost(Cases[bench.ci]))
    /\ bench' = [bench EXCEPT !.pc = "agent"]
    /\ UNCHANGED cli

\* lines 27-29: run returned or raised
BenchRunEnds ==
    /\ bench.pc = "agent"
    /\ pc \in Terminal
    /\ bench' = [bench EXCEPT !.pc = "judge", !.agent_output = AgentOutput]
    /\ UNCHANGED <<agent_vars, cli>>

\* lines 32-38 and 84: the judge is asked, the result is appended
BenchJudge ==
    /\ bench.pc = "judge"
    /\ \E o \in JudgeOutcomes :
        bench' = [bench EXCEPT
                    !.pc = "case",
                    !.ci = bench.ci + 1,
                    !.judge = o,
                    !.model_results =
                        Append(bench.model_results,
                               [id |-> Cases[bench.ci].id,
                                agent_output |-> bench.agent_output,
                                scores |-> JudgeOutput(o)])]
    /\ UNCHANGED <<agent_vars, cli>>

\* lines 87-94: the averages of the model are stored
BenchAverages ==
    /\ bench.pc = "case"
    /\ bench.ci > Len(Cases)
    /\ Averageable(bench.model_results)
    /\ bench' = [bench EXCEPT
                    !.pc = "model",
                    !.mi = bench.mi + 1,
                    !.results =
                        Append(bench.results,
                               [model |-> Models[bench.mi],
                                avg_factuality |->
                                    <<SumOf(bench.model_results, "factuality"),
                                      Len(bench.model_results)>>,
                                avg_utility |->
                                    <<SumOf(bench.model_results, "utility"),
                                      Len(bench.model_results)>>,
                                details |-> bench.model_results])]
    /\ UNCHANGED <<agent_vars, cli>>

\* lines 87-88: KeyError leaves run_benchmark
BenchAveragesRaise ==
    /\ bench.pc = "case"
    /\ bench.ci > Len(Cases)
    /\ ~Averageable(bench.model_results)
    /\ bench' = [bench EXCEPT !.pc = "aborted"]
    /\ UNCHANGED <<agent_vars, cli>>

\* lines 96-114: the table is printed and the two files are written
BenchSave ==
    /\ bench.pc = "model"
    /\ bench.mi > Len(Models)
    /\ bench' = [bench EXCEPT !.pc = "saved"]
    /\ UNCHANGED <<agent_vars, cli>>

NextBench ==
    \/ BenchNewAgent
    \/ BenchStartCase
    \/ BenchRunEnds
    \/ BenchJudge
    \/ BenchAverages
    \/ BenchAveragesRaise
    \/ BenchSave
    \/ ModelRepliesBench
    \/ ModelRaises
    \/ ModelNoContent
    \/ ReturnExhausted
    \/ FinalAnswer
    \/ Malformed

BenchSpec == InitBench /\ [][NextBench]_vars

\* every score recorded so far: those of the model being benchmarked and
\* those stored with the averages of earlier models
RecordedScores ==
    {bench.model_results[i].scores : i \in 1..Len(bench.model_results)}
        \cup UNION {{bench.results[k].details[i].scores :
                        i \in 1..Len(bench.results[k].details)} :
                    k \in 1..Len(bench.results)}

\* C17 as claimed: every recorded score has factuality and utility ratings
\* within 1..5, on the path where judging fails too.
C17_RatingsInRange ==
    \A sc \in RecordedScores :
        /\ {"factuality", "utility"} \subseteq DOMAIN sc
        /\ sc.factuality \in 1..5
        /\ sc.utility \in 1..5

\* C17: the score recorded for a case is the decoded reply of the judge,
\* unchanged and unvalidated, when the reply is a JSON value; when the
\* judge call raises or the reply is no JSON it is the fallback with
\* factuality 0 and utility 0, which is outside 1..5.
C17_ScoreIsReplyOrFallback ==
    [][(bench.pc = "judge") =>
          LET r == bench'.model_results[Len(bench'.model_results)]
          IN  /\ Len(bench'.model_results) = Len(bench.model_results) + 1
              /\ bench'.judge.kind = "json" => r.scores = bench'.judge.value
              /\ bench'.judge.kind \in {"invalid", "raise"} =>
                    r.scores = [factuality |-> 0, utility |-> 0,
                                reasoning |-> <<"Error in judging.">>]]_vars

C17_Witness ==
    /\ bench.pc = "case"
    /\ bench.judge.kind = "raise"
    /\ Len(bench.model_results) = 1
    /\ bench.model_results[1].scores.factuality = 0
    /\ bench.model_results[1].scores.utility = 0

\* C20 as claimed: with a non-empty case list no failure inside a case
\* aborts run_benchmark: an exception of run becomes an agent_output
\* starting with "Error:", a failing judge call becomes the fallback
\* score, and every model gets exactly one result per case, in case
\* order, produced by the agent constructed for that model.
C20_BenchmarkNeverAborts ==
    /\ bench.pc # "aborted"
    /\ (bench.pc = "judge" /\ pc = "raised" =>
            bench.agent_output[1] = "Error: ")
    /\ (bench.judge.kind \in {"invalid", "raise"}
            /\ bench.model_results # <<>>) =>
            bench.model_results[Len(bench.model_results)].scores =
                [factuality |-> 0, utility |-> 0,
                 reasoning |-> <<"Error in judging.">>]
    /\ bench.agents = 1 + Len(bench.results)
                        + (IF bench.pc \in {"case", "agent", "judge"}
                           THEN 1 ELSE 0)
    /\ \A k \in 1..Len(bench.results) :
        /\ bench.results[k].model = Models[k]
        /\ Len(bench.results[k].details) = Len(Cases)
        /\ \A i \in 1..Len(Cases) :
              bench.results[k].details[i].id = Cases[i].id
    /\ bench.pc = "saved" => Len(bench.results) = Len(Models)

\* C18: a tool execution starts only from the parse step, after the
\* response of the step is in the transcript as its last turn, and adds
\* exactly one execution; while it runs nothing else happens, and when it
\* ends the observation of the step is appended and the step is counted.
\* So a step has at most one execution, also for an output with several
\* "Action:" / "Action Input:" pairs, and a run never has more tool
\* executions than model invocations.
C18_OneToolPerStep ==
    /\ [](/\ tool_execs <= llm_calls
          /\ tool_execs <= step_count + (IF pc = "exec" THEN 1 ELSE 0))
    /\ [](pc = "exec" =>
            /\ call.active
            /\ history[Len(history)] =
                   [role |-> "assistant", content |-> llm_output]
            /\ Len(history) = 3 + 2 * step_count)
    /\ [][(tool_execs' # tool_execs /\ runs' = runs) =>
            /\ pc = "parse"
            /\ pc' = "exec"
            /\ tool_execs' = tool_execs + 1
            /\ history[Len(history)].role = "assistant"
            /\ UNCHANGED <<history, step_count, llm_calls>>]_vars
    /\ [][(pc = "exec") =>
            /\ pc' = "loop"
            /\ UNCHANGED <<tool_execs, llm_calls>>
            /\ step_count' = step_count + 1
            /\ history' = Append(history,
                   [role |-> "user", content |-> observation'])]_vars

C18_Witness ==
    /\ pc = "loop"
    /\ step_count = 1
    /\ llm_calls = 1
    /\ tool_execs = 1
    /\ Len(LinesStarting(llm_output, ACT)) = 2
    /\ Len(LinesStarting(llm_output, AIN)) = 2
    /\ call.name = <<"search">>

\* turns with role assistant in the transcript
AssistantTurns == Cardinality({i \in 1..Len(history) : history[i].role = "assistant"})

\* within a run turns are only appended
AppendOnly ==
    (runs' = runs) =>
        /\ Len(history') >= Len(history)
        /\ SubSeq(history', 1, Len(history)) = history

====
